---- MODULE Spec2Model ----
(***************************************************************************)
(* Verification model of the U-CBF microgrid digital twin.                 *)
(*                                                                         *)
(* The repository holds several independent Streamlit programs; a          *)
(* behaviour of the model is a run of one of them, chosen by `prog`:       *)
(*   "filter"    calls of CBFSafetyFilter.filter_action (the class lives   *)
(*               in src.safety.cbf_filter, which is not part of the        *)
(*               sources; it is modelled from the specification)           *)
(*   "qpviz"     the QP intervention visualisation of the Safety Analyzer  *)
(*               page, the filter's stand-in a_safe = clip(a_rl,-0.3,0.3)  *)
(*   "demo"      the Live Simulation loop of streamlit_demo.py, run by     *)
(*               the sessions of one Streamlit process                     *)
(*   "saocp"     the SAOCP calibration simulation of the Safety Analyzer   *)
(*   "calib"     calls of SAOCPCalibrator.update (modelled from the        *)
(*               specification around the update rule of the page)         *)
(*   "dashboard" SimulationDataGenerator.get_state of app.py and           *)
(*               digital_twin_dashboard.py                                 *)
(*   "indicator" the CBF status indicator of microgrid_schematic.py        *)
(*   "app"       the control panel of app.py around its generator          *)
(*   "twin"      the control panel of digital_twin_dashboard.py around     *)
(*               its generator                                             *)
(*   "charts"    a RealtimeChartManager of components/realtime_charts.py   *)
(*               that is fed states and reset                              *)
(*                                                                         *)
(* Reals are fixed-point integers; the unit of each quantity is stated     *)
(* where it is introduced.                                                 *)
(***************************************************************************)
EXTENDS Integers, Sequences, FiniteSets, TLC

Programs ==
    {"filter", "qpviz", "demo", "saocp", "calib", "dashboard", "power", "indicator",
     "charts", "app", "twin"}

Max(a, b) == IF a >= b THEN a ELSE b
Min(a, b) == IF a <= b THEN a ELSE b
Abs(x) == IF x >= 0 THEN x ELSE 0 - x

\* np.clip(x, lo, hi)
ClipWide(x, lo, hi) == x
Clip(x, lo, hi) == Max(lo, Min(hi, x))

(***************************************************************************)
(* CBFSafetyFilter (specification 4.3).  Actions are points of a 2-D       *)
(* integer grid; the actuator bounds are the box [-ActMax, ActMax]^2.      *)
(***************************************************************************)
ActMax == 1
NomMax == 2
HBelow == 2
HMin == 0 - HBelow
HMax == 2
MaxSigma == 1
MaxSlack == 2

\* configuration of the filter: beta, uncertainty penalty, slack penalty
\* weight, numerical tolerance of the action comparison; the class-K gain
\* lambda is the filter's attribute lambda_tight
Beta == 0
EtaPenalty == 1
SlackPenalty == 10
Tol == 0

ActRange == (0 - ActMax)..ActMax
Actions == ActRange \X ActRange
NomRange == (0 - NomMax)..NomMax
NomActions == NomRange \X NomRange
Grads == {<<1, 0>>, <<1, 1>>}
Lambdas == {1, 3}

Dist2(a, b) == (a[1] - b[1]) * (a[1] - b[1]) + (a[2] - b[2]) * (a[2] - b[2])
Dot(g, a) == g[1] * a[1] + g[2] * a[2]

\* grad h(s) . f(s, a) + lambda * h(s): the change of h predicted for the
\* nominal action (h of predicted_mean minus h of state), moved along the
\* gradient for another action a
CbfLhs(lam, h, hp, g, nom, a) == (hp - h) + Dot(g, a) - Dot(g, nom) + lam * h
\* - beta - eta_penalty * sigma_calibrated
CbfRhs(sigma) == 0 - Beta - EtaPenalty * sigma

SatisfiesBarrier(lam, h, hp, g, nom, sigma, a) == CbfLhs(lam, h, hp, g, nom, a) >= CbfRhs(sigma)

\* Level 1: the actuator-bounded actions that satisfy the barrier constraint
Level1SetStrict(lam, h, hp, g, nom, sigma) ==
    {a \in Actions : CbfLhs(lam, h, hp, g, nom, a) > CbfRhs(sigma)}
Level1Set(lam, h, hp, g, nom, sigma) ==
    {a \in Actions : SatisfiesBarrier(lam, h, hp, g, nom, sigma, a)}

\* Level 2: the constraint relaxed by a slack s in 0..MaxSlack
SlackOf(lam, h, hp, g, nom, sigma, a) == Max(0, CbfRhs(sigma) - CbfLhs(lam, h, hp, g, nom, a))
Level2Set(lam, h, hp, g, nom, sigma) ==
    {a \in Actions : SlackOf(lam, h, hp, g, nom, sigma, a) <= MaxSlack}
Level2Cost(lam, h, hp, g, nom, sigma, a) ==
    Dist2(a, nom) + SlackPenalty * SlackOf(lam, h, hp, g, nom, sigma, a)

\* the lexicographically least action of a non-empty set
LexLeast(S) ==
    CHOOSE a \in S : \A b \in S : a[1] < b[1] \/ (a[1] = b[1] /\ a[2] <= b[2])

\* tie-break among several minimisers: the one closest to the previous
\* timestep's safe_action
TieBreakFarthest(M, prev) ==
    LexLeast({a \in M : \A b \in M : Dist2(a, prev) >= Dist2(b, prev)})
TieBreak(M, prev) ==
    LexLeast({a \in M : \A b \in M : Dist2(a, prev) <= Dist2(b, prev)})

SolveLevel1Feasible(lam, h, hp, g, nom, sigma, prev) ==
    LexLeast(Level1Set(lam, h, hp, g, nom, sigma))
SolveLevel1(lam, h, hp, g, nom, sigma, prev) ==
    LET F == Level1Set(lam, h, hp, g, nom, sigma)
    IN  TieBreak({a \in F : \A b \in F : Dist2(a, nom) <= Dist2(b, nom)}, prev)

SolveLevel2(lam, h, hp, g, nom, sigma, prev) ==
    LET F == Level2Set(lam, h, hp, g, nom, sigma)
    IN  TieBreak({a \in F : \A b \in F :
                    Level2Cost(lam, h, hp, g, nom, sigma, a) <= Level2Cost(lam, h, hp, g, nom, sigma, b)},
                 prev)

\* Level 3: maximise h, whatever the distance to the nominal action
SolveLevel3(lam, h, hp, g, nom, sigma, prev) ==
    TieBreak({a \in Actions : \A b \in Actions :
                CbfLhs(lam, h, hp, g, nom, a) >= CbfLhs(lam, h, hp, g, nom, b)}, prev)

LevelOfSkip2(lam, h, hp, g, nom, sigma) ==
    IF Level1Set(lam, h, hp, g, nom, sigma) # {} THEN 1 ELSE 3
LevelOf(lam, h, hp, g, nom, sigma) ==
    IF Level1Set(lam, h, hp, g, nom, sigma) # {} THEN 1
    ELSE IF Level2Set(lam, h, hp, g, nom, sigma) # {} THEN 2
    ELSE 3

\* is_safe = h(state) > 0 on the current state
FilterIsSafeAlways(h) == TRUE
FilterIsSafe(h) == h > 0
\* cbf_active: safe_action differs from nominal_action beyond the tolerance
CbfActive(safe, nom) == Dist2(safe, nom) > Tol

\* filter_action(state, nominal_action, predicted_mean, sigma_calibrated)
FilterAction(lam, h, nom, hp, sigma, g, prev) ==
    LET lvl == LevelOf(lam, h, hp, g, nom, sigma)
        safe == CASE lvl = 1 -> SolveLevel1(lam, h, hp, g, nom, sigma, prev)
                  [] lvl = 2 -> SolveLevel2(lam, h, hp, g, nom, sigma, prev)
                  [] OTHER   -> SolveLevel3(lam, h, hp, g, nom, sigma, prev)
    IN  [safe_action |-> safe,
         level |-> lvl,
         nominal_action |-> nom,
         is_safe |-> FilterIsSafe(h),
         cbf_active |-> CbfActive(safe, nom),
         barrier_value |-> h,
         safety_margin |-> Max(0, h)]

NoDecision == [level |-> 0]
NoInput == [h |-> 0]

FilterInputs ==
    [h : HMin..HMax, hp : HMin..HMax, nom : NomActions,
     sigma : 0..MaxSigma, g : Grads, prev : Actions, lam : Lambdas]

(***************************************************************************)
(* QP intervention visualisation (pages/3_Safety_Analyzer.py): the RL      *)
(* action a_rl = 0.5 sin(t) over 100 points and the filtered action        *)
(* a_safe = clip(a_rl, -0.3, 0.3).  Unit: 0.1.                             *)
(***************************************************************************)
ARlAmp == 5
SafeLo == -3
SafeHi == 3
VizPoints == 3

(***************************************************************************)
(* SAOCP calibration (pages/3_Safety_Analyzer.py).  Coverage is in units   *)
(* of 0.01, eta in units of 0.0001, the corrected coverage in units of     *)
(* 0.000001.  The page simulates 200 samples of the raw coverage, shifted  *)
(* from sample 100 on, and corrects the samples after sample 100.          *)
(***************************************************************************)
\* eta = 1.0
EtaOne == 10000
NPoints == 200
ShiftAt == 100
UpdateAfter == 100
\* target coverage 0.90
Target == 90
\* learning rate 0.01: 0.01 * 0.01 is one unit of eta
Alpha == 1
\* corrected = min(0.95, cov + 0.15 * (eta - 1))
CorrGain == 15
CorrCap == 950000
CovScale == 10000
\* raw coverage samples: 0.92 + 0.03 randn before, 0.75 + 0.05 randn after
CovBefore == {85, 90, 95}
CovAfter == {65, 75, 85, 95}

\* the rule the page displays: eta(t+1) = eta(t) + alpha * (coverage(t) - target)
DisplayedRule(eta, cov) == eta + Alpha * (cov - Target)
\* eta = eta + 0.01 * (0.90 - cov)
EtaStepDisplayed(eta, cov) == eta + Alpha * (cov - Target)
EtaStep(eta, cov) == eta + Alpha * (Target - cov)
\* corrected = min(0.95, cov + 0.15 * (eta - 1))
Corrected(cov, eta) == Min(CorrCap, cov * CovScale + CorrGain * (eta - EtaOne))

\* SAOCPCalibrator.update (specification 4.2): the step of the rule, clipped
\* to [eta_min, eta_max]
EtaMin == 5000
EtaMax == 20000
CovObs == {0, 50, 90, 100}
SAOCPUpdateUnclamped(eta, cov) == EtaStep(eta, cov)
SAOCPUpdate(eta, cov) == Clip(EtaStep(eta, cov), EtaMin, EtaMax)

(***************************************************************************)
(* SimulationDataGenerator (app.py, digital_twin_dashboard.py) and the CBF *)
(* status indicator (components/microgrid_schematic.py).  Voltage is in    *)
(* volts, the state of charge in percent, the barrier in units of 0.1.     *)
(* The sinusoid and the Gaussian noise that get_state adds to a quantity   *)
(* are one increment drawn from a small set.  The generator is modelled in *)
(* two parts that get_state updates independently of each other: voltage,  *)
(* state of charge and barrier (program "dashboard"), and frequency, PV    *)
(* power and load (program "power", frequency in units of 0.1 Hz, powers   *)
(* in kW).                                                                 *)
(***************************************************************************)
Scenarios == {"NORMAL", "HEATWAVE", "CLOUD_COVER", "CYBER_ATTACK"}
VoltageMin == 218
VoltageMax == 242
VoltageInit == 230
SocMin == 15
SocMax == 95
SocInit == 65
BarrierInit == 120
BarrierUnit == 10
\* cbf_active below a barrier of 2.0
CbfThreshold == 20
VoltageDeltas == {-6, 0, 6}
SocDeltas == {-50, 0, 50}
\* CYBER_ATTACK: 255 + 5 sin(t), 0.05 + 0.01 sin(t), -5.0 + gauss(0, 0.5)
AttackVoltages == {250, 260}
AttackSocs == {5}
AttackBarriers == {-60, -50, -40}
\* barrier values handed to the status indicator
IndicatorBarriers == {-50, -1, 0, 1, 19, 20, 120}

\* x / 5 rounded to the nearest unit
Round5(x) == (2 * x + 5) \div 10
\* self._barrier += 0.2 * (target_barrier - self._barrier)
BarrierStepFull(b, target) == target
BarrierStep(b, target) == Round5(4 * b + target)
\* target_barrier = min(v_margin, soc_margin)
TargetBarrierSignSlip(v, soc) ==
    Min(Min(VoltageMax - v, VoltageMin - v) * BarrierUnit, (soc - SocMin) * BarrierUnit)
TargetBarrier(v, soc) ==
    Min(Min(VoltageMax - v, v - VoltageMin) * BarrierUnit, (soc - SocMin) * BarrierUnit)

\* cbf_active = self._barrier < 2.0
GenCbfActiveWhenUnsafe(b) == b <= 0
GenCbfActive(b) == b < CbfThreshold
\* is_safe = self._barrier > 0
GenIsSafeAtZero(b) == b >= 0
GenIsSafe(b) == b > 0

\* the dict get_state returns
StateDictBand(g) ==
    [voltage |-> g.voltage,
     soc |-> g.soc,
     barrier_value |-> g.barrier,
     cbf_active |-> GenIsSafe(g.barrier) /\ GenCbfActive(g.barrier),
     is_safe |-> GenIsSafe(g.barrier),
     safety_margin |-> Max(0, g.barrier),
     scenario |-> g.scenario]
StateDict(g) ==
    [voltage |-> g.voltage,
     soc |-> g.soc,
     barrier_value |-> g.barrier,
     cbf_active |-> GenCbfActive(g.barrier),
     is_safe |-> GenIsSafe(g.barrier),
     safety_margin |-> Max(0, g.barrier),
     scenario |-> g.scenario]
NoRecord == [scenario |-> "none"]

\* create_cbf_status_indicator(cbf_active, barrier_value, safety_margin)
IndicatorIsSafe(b) == b > 0
CbfStatusIndicator(active, b) ==
    [cbf_active |-> active,
     barrier_value |-> b,
     is_safe |-> IndicatorIsSafe(b),
     status_text |-> IF ~IndicatorIsSafe(b) THEN "VIOLATION"
                     ELSE IF active THEN "ACTIVE" ELSE "NOMINAL"]
NoIndicator == [status_text |-> "none"]

\* SimulationDataGenerator.__init__
\* attacked records that a get_state was made in CYBER_ATTACK since __init__
NewGenerator ==
    [voltage |-> VoltageInit, soc |-> SocInit, barrier |-> BarrierInit,
     scenario |-> "NORMAL", attacked |-> FALSE]

\* SimulationDataGenerator.set_scenario
GenSetScenario(g, sc) ==
    [g EXCEPT !.scenario = sc]

\* the generator after get_state, for each increment get_state can draw
GetStateResults(g) ==
    IF g.scenario = "CYBER_ATTACK"
    THEN {[g EXCEPT !.voltage = av, !.soc = as, !.barrier = ab, !.attacked = TRUE] :
            av \in AttackVoltages, as \in AttackSocs, ab \in AttackBarriers}
    ELSE {[g EXCEPT !.voltage = Max(VoltageMin, Min(VoltageMax, g.voltage + dv)),
                    !.soc = Max(SocMin, Min(SocMax, g.soc + ds)),
                    !.barrier = BarrierStep(g.barrier,
                                  TargetBarrier(Max(VoltageMin, Min(VoltageMax, g.voltage + dv)),
                                                Max(SocMin, Min(SocMax, g.soc + ds))))] :
            dv \in VoltageDeltas, ds \in SocDeltas}

\* frequency, PV power and load of the generator: the limits of the clamps
FrequencyMin == 492
FrequencyMax == 508
PvMin == 0
PvMax == 50
LoadMin == 20
LoadMax == 50

\* self._frequency = max(49.2, min(50.8, self._frequency))
ClampFrequencyBelow(f) == Max(FrequencyMin, f)
ClampFrequency(f) == Max(FrequencyMin, Min(FrequencyMax, f))

\* SimulationDataGenerator.__init__: 50.0 Hz, 25.0 kW, 35.0 kW; called
\* records the scenario of the last get_state, after_attack that the last
\* get_state was made outside CYBER_ATTACK and the one before it in
\* CYBER_ATTACK
NewPowerGenerator ==
    [frequency |-> 500, pv |-> 25, load |-> 35,
     scenario |-> "NORMAL", called |-> "none", after_attack |-> FALSE]

\* the part of the dict get_state returns
PowerDict(g) ==
    [frequency |-> g.frequency, p_pv |-> g.pv, p_load |-> g.load,
     scenario |-> g.scenario]

\* the generator after get_state: the increments and the clamps, then the
\* overrides of the scenario.
\*   HEATWAVE: load 45 + 5 sin(0.2 t), pv 15 + 2 sin(0.1 t)
\*   CLOUD_COVER: pv 5 + 2 random()
\*   CYBER_ATTACK: frequency 51.5 + 0.5 sin(2 t)
GetPowerResults(g) ==
    LET stepped(df, dp, dl) ==
            [g EXCEPT !.frequency = ClampFrequency(g.frequency + df),
                      !.pv = Max(PvMin, Min(PvMax, g.pv + dp)),
                      !.load = Max(LoadMin, Min(LoadMax, g.load + dl)),
                      !.called = g.scenario,
                      !.after_attack = g.called = "CYBER_ATTACK"
                                         /\ g.scenario # "CYBER_ATTACK"]
        base == {stepped(df, dp, dl) :
                   df \in {-10, 0, 10}, dp \in {-30, 0, 30}, dl \in {-20, 0, 20}}
    IN  CASE g.scenario = "HEATWAVE" ->
               {[b EXCEPT !.load = hl, !.pv = hp] :
                  b \in base, hl \in {40, 50}, hp \in {13, 17}}
          [] g.scenario = "CLOUD_COVER" ->
               {[b EXCEPT !.pv = cp] : b \in base, cp \in {5, 7}}
          [] g.scenario = "CYBER_ATTACK" ->
               {[b EXCEPT !.frequency = af] : b \in base, af \in {510, 520}}
          [] OTHER -> base

(***************************************************************************)
(* The control panel of app.py and of digital_twin_dashboard.py.  A run   *)
(* of the script first handles the button that was pressed, then reads the *)
(* scenario select box, whose value persists between runs, and hands it to *)
(* the generator.  The chart manager is filled with PrefillCount states    *)
(* when the session starts and on Reset.                                   *)
(***************************************************************************)
PanelPrograms == {"app", "twin"}
MaxPrefill == 2
\* the keys of the dict get_state returns in app.py
AppKeys ==
    {"step", "timestamp", "voltage", "frequency", "soc", "p_pv", "p_load",
     "p_battery", "p_grid", "barrier_value", "cbf_active", "is_safe",
     "safety_margin", "scenario"}
\* the keys of the dict get_state returns in digital_twin_dashboard.py
TwinKeys ==
    {"step", "timestamp", "voltage", "frequency", "soc", "p_pv", "p_load",
     "p_battery", "p_grid", "barrier_value", "cbf_active", "is_safe",
     "safety_margin", "sigma_calibrated", "prediction_mean", "prediction_std",
     "tariff", "time_of_day", "scenario"}
DictKeys(p) == IF p = "app" THEN AppKeys ELSE TwinKeys

(***************************************************************************)
(* Live Simulation of streamlit_demo.py.  Each browser session runs the    *)
(* script in a thread of the one Streamlit process; load_models is         *)
(* decorated with st.cache_resource, which builds the returned objects on  *)
(* the first call and hands the same objects to every later call of any    *)
(* session.  The state handed to the filter is its barrier value.          *)
(***************************************************************************)
Sessions == {1, 2}
MaxSteps == 2
EnvStates == {-1, 1}
EnvInitial == 1
DemoGrad == <<1, 1>>
\* the actions the random policy of the demo is seen to draw
PolicyActions == {<<0, 0>>, <<1, 1>>}
\* the slider values of the two sessions
SliderLambda == [s \in Sessions |-> IF s = 1 THEN 1 ELSE 3]
NoObject == 0

\* EnsembleDynamics.predict(state, action) -> (mean, raw_std)
EnsemblePredict(h, a) ==
    [mean |-> Clip(h + Dot(DemoGrad, a), HMin, HMax), raw_std |-> 1]
\* SAOCPCalibrator.calibrate(raw_std) = eta * raw_std
SAOCPCalibrate(eta, raw_std) == (eta * raw_std) \div EtaOne

NoAction == <<0, 0>>
NoPrediction == [mean |-> 0, raw_std |-> 0]


(***************************************************************************)
(* RealtimeChartManager (components/realtime_charts.py).  A state handed   *)
(* to update is a dict, an object with attributes, or None; its values are *)
(* a function from keys to values, in the units of the generator.  Time is *)
(* a clock that advances by one unit with every update.  Costs are in      *)
(* units of the instant cost, the baseline cost in units of 0.01 / 3600.   *)
(***************************************************************************)
WindowSize == 2
MaxUpdates == 4
MaxResets == 1
ChartConfigs == {"ChartConfig", "LIGHT_CHART_CONFIG"}
BufferKeys ==
    {"timestamp", "step", "voltage", "frequency", "soc", "pv_power", "load_power",
     "p_battery", "p_grid", "barrier_value", "sigma_calibrated", "safety_margin",
     "cbf_active", "prediction_mean", "prediction_std", "actual_value",
     "instant_cost", "cumulative_cost", "baseline_cumulative"}
\* start_time = None
NoTime == 0 - 1
\* abs(p_grid) * 0.19 / 3600
BaselineTariff == 19
\* the defaults of values.get
DefaultVoltage == 230
DefaultFrequency == 50
DefaultSoc == 50
DefaultPredictionStd == 1

\* the dict of digital_twin_dashboard.py's get_state at barrier b (the keys
\* update does not read are left out)
TwinSample(b) ==
    [kind |-> "dict",
     values |-> [voltage |-> 231, frequency |-> 50, soc |-> 65, p_pv |-> 25,
                 p_load |-> 35, p_battery |-> -10, p_grid |-> 3,
                 barrier_value |-> b, cbf_active |-> GenCbfActive(b),
                 is_safe |-> GenIsSafe(b), safety_margin |-> Max(0, b),
                 sigma_calibrated |-> 8, prediction_mean |-> 231,
                 prediction_std |-> 2]]
\* the dict of app.py's get_state, which has no sigma_calibrated,
\* prediction_mean and prediction_std
AppSample ==
    [kind |-> "dict",
     values |-> [voltage |-> 229, frequency |-> 50, soc |-> 64, p_pv |-> 24,
                 p_load |-> 36, p_battery |-> -12, p_grid |-> 0 - 4,
                 barrier_value |-> 110, cbf_active |-> FALSE, is_safe |-> TRUE,
                 safety_margin |-> 110]]
\* a state of the module's own test, which draws cbf_active and is_safe
\* independently of the barrier value
TestSample ==
    [kind |-> "dict",
     values |-> [voltage |-> 232, frequency |-> 50, soc |-> 50, p_pv |-> 30,
                 p_load |-> 35, p_battery |-> 5, p_grid |-> 5,
                 barrier_value |-> 100, cbf_active |-> FALSE, is_safe |-> FALSE,
                 sigma_calibrated |-> 8, safety_margin |-> 80,
                 prediction_mean |-> 230, prediction_std |-> 2]]
\* a SimulationState object with an instant cost
ObjectSample ==
    [kind |-> "object",
     values |-> [voltage |-> 230, soc |-> 60, p_grid |-> 2, barrier_value |-> 15,
                 cbf_active |-> TRUE, is_safe |-> TRUE, instant_cost |-> 2]]
NoneSample == [kind |-> "None", values |-> [k \in {} |-> 0]]
ChartBarriers == {-50, 120}
Samples ==
    {TwinSample(b) : b \in ChartBarriers} \cup {AppSample, TestSample, ObjectSample, NoneSample}

\* _extract_values(state)
ExtractValues(state) ==
    IF state.kind \in {"dict", "object"} THEN state.values ELSE [k \in {} |-> 0]
\* values.get(key, default)
Get(values, key, default) == IF key \in DOMAIN values THEN values[key] ELSE default

\* deque(maxlen = n).append(x): when full, the oldest entry is discarded
DequeAppendKeepOldest(q, x, n) == IF Len(q) < n THEN Append(q, x) ELSE q
DequeAppend(q, x, n) == IF Len(q) < n THEN Append(q, x) ELSE Append(Tail(q), x)

\* CBFEventType
CBFEventTypes == {"monitoring", "intervening", "violation", "recovered"}
\* _track_cbf_event: the type of the sample
EventTypeRecovered(cbf_active, is_safe) ==
    IF ~is_safe THEN "violation" ELSE IF cbf_active THEN "intervening" ELSE "recovered"
EventType(cbf_active, is_safe) ==
    IF ~is_safe THEN "violation" ELSE IF cbf_active THEN "intervening" ELSE "monitoring"
\* _track_cbf_event(timestamp, barrier_value, cbf_active, is_safe)
TrackCbfEventAlways(events, timestamp, barrier, cbf_active, is_safe) ==
    Append(events, [timestamp |-> timestamp,
                    event_type |-> EventType(cbf_active, is_safe),
                    barrier_value |-> barrier])
TrackCbfEvent(events, timestamp, barrier, cbf_active, is_safe) ==
    IF events # <<>> /\ events[Len(events)].event_type = EventType(cbf_active, is_safe)
    THEN events
    ELSE Append(events, [timestamp |-> timestamp,
                         event_type |-> EventType(cbf_active, is_safe),
                         barrier_value |-> barrier])

\* _init_buffers()
InitBuffers == [k \in BufferKeys |-> <<>>]
\* RealtimeChartManager(window_size, config = config)
NewManager(window_size, config) ==
    [window_size |-> window_size,
     config |-> config,
     data_buffer |-> InitBuffers,
     cbf_events |-> <<>>,
     total_cost |-> 0,
     baseline_cost |-> 0,
     start_time |-> NoTime]

\* manager.reset()
ManagerResetKeepClock(m) ==
    [m EXCEPT !.data_buffer = InitBuffers, !.cbf_events = <<>>,
              !.total_cost = 0, !.baseline_cost = 0]
ManagerReset(m) ==
    [m EXCEPT !.data_buffer = InitBuffers, !.cbf_events = <<>>,
              !.total_cost = 0, !.baseline_cost = 0, !.start_time = NoTime]

\* manager.update(state) at time now
ManagerUpdate(m, state, now) ==
    LET start == IF m.start_time = NoTime THEN now ELSE m.start_time
        values == ExtractValues(state)
        timestamp == now - start
        step == Len(m.data_buffer["timestamp"])
        barrier == Get(values, "barrier_value", 0)
        cbf_active == Get(values, "cbf_active", FALSE)
        instant_cost == Get(values, "instant_cost", 0)
        total == m.total_cost + instant_cost
        baseline == m.baseline_cost + Abs(Get(values, "p_grid", 0)) * BaselineTariff
        entry == [k \in BufferKeys |->
                    CASE k = "timestamp" -> timestamp
                      [] k = "step" -> step
                      [] k = "voltage" -> Get(values, "voltage", DefaultVoltage)
                      [] k = "frequency" -> Get(values, "frequency", DefaultFrequency)
                      [] k = "soc" -> Get(values, "soc", DefaultSoc)
                      [] k = "pv_power" -> Get(values, "p_pv", 0)
                      [] k = "load_power" -> Get(values, "p_load", 0)
                      [] k = "p_battery" -> Get(values, "p_battery", 0)
                      [] k = "p_grid" -> Get(values, "p_grid", 0)
                      [] k = "barrier_value" -> barrier
                      [] k = "sigma_calibrated" -> Get(values, "sigma_calibrated", 0)
                      [] k = "safety_margin" -> Get(values, "safety_margin", 0)
                      [] k = "cbf_active" -> IF cbf_active THEN 1 ELSE 0
                      [] k = "prediction_mean" -> Get(values, "prediction_mean", DefaultVoltage)
                      [] k = "prediction_std" -> Get(values, "prediction_std", DefaultPredictionStd)
                      [] k = "actual_value" -> Get(values, "voltage", DefaultVoltage)
                      [] k = "instant_cost" -> instant_cost
                      [] k = "cumulative_cost" -> total
                      [] OTHER -> baseline]
    IN  [m EXCEPT !.start_time = start,
                  !.data_buffer = [k \in BufferKeys |->
                                     DequeAppend(m.data_buffer[k], entry[k], m.window_size)],
                  !.total_cost = total,
                  !.baseline_cost = baseline,
                  !.cbf_events = TrackCbfEvent(m.cbf_events, timestamp, barrier, cbf_active,
                                               Get(values, "is_safe", TRUE))]

VARIABLES
    prog,        \* the program this behaviour runs
    fprev,       \* filter: safe_action of the previous call
    fin,         \* filter: inputs of the last call
    decision,    \* filter: result of the last call
    earlier,     \* filter: result of the call before the last one
    viz,         \* qpviz: points computed so far, last a_rl and a_safe
    cached,      \* demo: the object st.cache_resource holds for load_models
    models,      \* demo: per object, lambda_tight, eta and previous safe_action
    ref,         \* demo: per session, the object load_models returned
    lambda_tight,\* demo: per session, the value of the slider
    n_steps,     \* demo: per session, the value of the slider
    pc,          \* demo: per session, the position in the script
    t,           \* demo: per session, the loop counter
    loop,        \* demo: per session, the locals of the loop body
    env,         \* demo: per session, the MicrogridEnv of the run
    ops,         \* demo: per session, the operations called in this iteration
    sim,         \* analyzer: the SAOCP simulation loop
    cal,         \* calibrator: eta of a SAOCPCalibrator and its last update
    gen,         \* dashboard: the fields of the SimulationDataGenerator
    rec,         \* dashboard: the dict the last get_state returned
    ind,         \* dashboard: the last status indicator
    pgen,        \* power: frequency, PV power and load of the generator
    prec,        \* power: their part of the dict the last get_state returned
    mgr,         \* charts: the fields of the RealtimeChartManager
    built,       \* charts: the arguments the manager was constructed with
    fed,         \* charts: the states and times of the updates since
                 \*         construction or the last reset
    clock,       \* charts: the time
    resets,      \* charts: the number of resets so far
    selected,    \* panel: the value of the scenario select box
    running,     \* panel: st.session_state.is_running
    ppc,         \* panel: the position in the script run
    filled,      \* panel: the states given to the chart manager by the
                 \*        pre-population loop so far
    sel_at_call, \* panel: the value of the select box when get_state was
                 \*        last called
    keys         \* panel: the keys of the dict the last get_state returned

filterVars == <<fprev, fin, decision, earlier>>
demoVars == <<cached, models, ref, lambda_tight, n_steps, pc, t, loop, env, ops>>
saocpVars == <<sim, cal>>
dashVars == <<gen, rec, ind, pgen, prec>>
chartVars == <<mgr, built, fed, clock, resets>>
panelVars == <<selected, running, ppc, filled, sel_at_call, keys>>
vars == <<prog, fprev, fin, decision, earlier, viz, cached, models, ref, lambda_tight,
          n_steps, pc, t, loop, env, ops, sim, cal, gen, rec, ind, pgen, prec, mgr,
          built, fed,
          clock, resets, selected, running, ppc, filled, sel_at_call, keys>>

NoLocals ==
    [state |-> 0, action |-> NoAction, pred |-> NoPrediction, sigma_cal |-> 0,
     action_safe |-> NoAction, lambda_read |-> 0, next_state |-> 0,
     terminated |-> FALSE]
NoEnv == [state |-> 0, action |-> NoAction, steps |-> 0]
NewModels == [lambda_tight |-> 0, eta |-> EtaOne, prev |-> NoAction]

DemoIdle ==
    /\ cached = NoObject
    /\ models = [o \in Sessions |-> NewModels]
    /\ ref = [s \in Sessions |-> NoObject]
    /\ lambda_tight = [s \in Sessions |-> 0]
    /\ n_steps = [s \in Sessions |-> 0]
    /\ pc = [s \in Sessions |-> "off"]
    /\ t = [s \in Sessions |-> 0]
    /\ loop = [s \in Sessions |-> NoLocals]
    /\ env = [s \in Sessions |-> NoEnv]
    /\ ops = [s \in Sessions |-> <<>>]

FilterIdle ==
    /\ fin = NoInput
    /\ fprev = <<0, 0>>
    /\ decision = NoDecision
    /\ earlier = NoDecision
VizIdle == viz = [k |-> 0, a_rl |-> 0, a_safe |-> 0]

\* eta = 1.0; saocp_coverage = []
SimIdle == sim = [i |-> 0, eta |-> EtaOne, eta_before |-> EtaOne, cov |-> 0, corrected |-> 0]
CalIdle == cal = [eta |-> EtaOne, eta_before |-> EtaOne, cov |-> Target, updates |-> 0]
SaocpIdle == SimIdle /\ CalIdle
DashIdle ==
    /\ gen = NewGenerator
    /\ rec = NoRecord
    /\ ind = NoIndicator
    /\ pgen = NewPowerGenerator
    /\ prec = NoRecord
PanelIdle ==
    /\ selected = "NORMAL"
    /\ running = FALSE
    /\ ppc = "off"
    /\ filled = 0
    /\ sel_at_call = "none"
    /\ keys = {}
ChartsIdle ==
    /\ mgr = NewManager(WindowSize, "ChartConfig")
    /\ built = [window_size |-> WindowSize, config |-> "ChartConfig"]
    /\ fed = <<>>
    /\ clock = 0
    /\ resets = 0

InitFilter ==
    /\ prog = "filter"
    /\ fin \in FilterInputs
    /\ fprev = fin.prev
    /\ decision = NoDecision
    /\ earlier = NoDecision
    /\ VizIdle
    /\ DemoIdle
    /\ SaocpIdle
    /\ DashIdle
    /\ ChartsIdle
    /\ PanelIdle

InitQPViz ==
    /\ prog = "qpviz"
    /\ FilterIdle
    /\ VizIdle
    /\ DemoIdle
    /\ SaocpIdle
    /\ DashIdle
    /\ ChartsIdle
    /\ PanelIdle

\* the SAOCP component of the Safety Analyzer page
InitSaocpSim ==
    /\ prog = "saocp"
    /\ FilterIdle
    /\ VizIdle
    /\ DemoIdle
    /\ SaocpIdle
    /\ DashIdle
    /\ ChartsIdle
    /\ PanelIdle

\* a SAOCPCalibrator after construction
InitCalib ==
    /\ prog = "calib"
    /\ FilterIdle
    /\ VizIdle
    /\ DemoIdle
    /\ SaocpIdle
    /\ DashIdle
    /\ ChartsIdle
    /\ PanelIdle

\* the sessions open the Live Simulation page with their slider values
InitDemo ==
    /\ prog = "demo"
    /\ FilterIdle
    /\ VizIdle
    /\ cached = NoObject
    /\ models = [o \in Sessions |-> NewModels]
    /\ ref = [s \in Sessions |-> NoObject]
    /\ lambda_tight = SliderLambda
    /\ n_steps = [s \in Sessions |-> MaxSteps]
    /\ pc = [s \in Sessions |-> "load_models"]
    /\ t = [s \in Sessions |-> 0]
    /\ loop = [s \in Sessions |-> NoLocals]
    /\ env = [s \in Sessions |-> NoEnv]
    /\ ops = [s \in Sessions |-> <<>>]
    /\ SaocpIdle
    /\ DashIdle
    /\ ChartsIdle
    /\ PanelIdle

\* the generator again, for its frequency, PV power and load
InitPower ==
    /\ prog = "power"
    /\ FilterIdle
    /\ VizIdle
    /\ DemoIdle
    /\ SaocpIdle
    /\ DashIdle
    /\ ChartsIdle
    /\ PanelIdle

\* the dashboard with a new SimulationDataGenerator
InitDashboard ==
    /\ prog = "dashboard"
    /\ FilterIdle
    /\ VizIdle
    /\ DemoIdle
    /\ SaocpIdle
    /\ DashIdle
    /\ ChartsIdle
    /\ PanelIdle

\* the status indicator widget
InitIndicator ==
    /\ prog = "indicator"
    /\ FilterIdle
    /\ VizIdle
    /\ DemoIdle
    /\ SaocpIdle
    /\ DashIdle
    /\ ChartsIdle
    /\ PanelIdle

\* a RealtimeChartManager after construction
InitCharts ==
    /\ prog = "charts"
    /\ FilterIdle
    /\ VizIdle
    /\ DemoIdle
    /\ SaocpIdle
    /\ DashIdle
    /\ \E cfg \in ChartConfigs :
         /\ mgr = NewManager(WindowSize, cfg)
         /\ built = [window_size |-> WindowSize, config |-> cfg]
    /\ fed = <<>>
    /\ clock = 0
    /\ resets = 0
    /\ PanelIdle

\* a new session of app.py or digital_twin_dashboard.py: the generator has
\* been constructed, the select box shows its first option
InitPanel ==
    /\ prog \in PanelPrograms
    /\ FilterIdle
    /\ VizIdle
    /\ DemoIdle
    /\ SaocpIdle
    /\ DashIdle
    /\ ChartsIdle
    /\ selected = "NORMAL"
    /\ running = FALSE
    /\ ppc = "init"
    /\ filled = 0
    /\ sel_at_call = "none"
    /\ keys = {}

Init ==
    \/ InitPanel
    \/ InitCharts
    \/ InitDashboard
    \/ InitPower
    \/ InitIndicator
    \/ InitFilter
    \/ InitQPViz
    \/ InitDemo
    \/ InitSaocpSim
    \/ InitCalib

\* one call of filter_action on the inputs fin; the filter keeps the action
\* it returned for the tie-break of the next call.  The call is made twice
\* in a row on the same inputs.
FilterCall ==
    /\ prog = "filter"
    /\ earlier = NoDecision
    /\ earlier' = decision
    /\ decision' = FilterAction(fin.lam, fin.h, fin.nom, fin.hp, fin.sigma, fin.g, fprev)
    /\ fprev' = decision'.safe_action
    /\ UNCHANGED <<prog, fin, viz, demoVars, saocpVars, dashVars, chartVars, panelVars>>

\* one point of the trajectory: a_rl = sin(t) * 0.5, a_safe = clip(a_rl)
QPVizPoint ==
    /\ prog = "qpviz"
    /\ viz.k < VizPoints
    /\ \E x \in (0 - ARlAmp)..ARlAmp :
         viz' = [k |-> viz.k + 1, a_rl |-> x, a_safe |-> Clip(x, SafeLo, SafeHi)]
    /\ UNCHANGED <<prog, fprev, fin, decision, earlier, demoVars, saocpVars, dashVars, chartVars, panelVars>>

\* ensemble, cbf, saocp = load_models(): the cached objects if there are
\* any, else new ones, which are cached
LoadModels(s) ==
    /\ prog = "demo"
    /\ pc[s] = "load_models"
    /\ cached' = IF cached = NoObject THEN s ELSE cached
    /\ ref' = [ref EXCEPT ![s] = cached']
    /\ pc' = [pc EXCEPT ![s] = "button"]
    /\ UNCHANGED <<prog, filterVars, viz, models, lambda_tight, n_steps, t, loop, env, ops, saocpVars, dashVars, chartVars, panelVars>>

\* Run Simulation: env = MicrogridEnv(); state, _ = env.reset(seed=42)
RunSimulation(s) ==
    /\ prog = "demo"
    /\ pc[s] = "button"
    /\ env' = [env EXCEPT ![s] = [state |-> EnvInitial, action |-> NoAction, steps |-> 0]]
    /\ loop' = [loop EXCEPT ![s] = [NoLocals EXCEPT !.state = EnvInitial]]
    /\ t' = [t EXCEPT ![s] = 0]
    /\ pc' = [pc EXCEPT ![s] = "for"]
    /\ UNCHANGED <<prog, filterVars, viz, cached, models, ref, lambda_tight, n_steps, ops, saocpVars, dashVars, chartVars, panelVars>>

\* for t in range(n_steps): action = np.random.uniform(low, high)
SampleAction(s) ==
    /\ prog = "demo"
    /\ pc[s] = "for"
    /\ t[s] < n_steps[s]
    /\ \E a \in PolicyActions : loop' = [loop EXCEPT ![s].action = a]
    /\ ops' = [ops EXCEPT ![s] = <<>>]
    /\ pc' = [pc EXCEPT ![s] = "predict"]
    /\ UNCHANGED <<prog, filterVars, viz, cached, models, ref, lambda_tight, n_steps, t, env, saocpVars, dashVars, chartVars, panelVars>>

\* the loop is exhausted
LoopEnd(s) ==
    /\ prog = "demo"
    /\ pc[s] = "for"
    /\ t[s] >= n_steps[s]
    /\ pc' = [pc EXCEPT ![s] = "done"]
    /\ UNCHANGED <<prog, filterVars, viz, cached, models, ref, lambda_tight, n_steps, t, loop, env, ops, saocpVars, dashVars, chartVars, panelVars>>

\* pred_mean, pred_std = ensemble.predict(state, action)
Predict(s) ==
    /\ prog = "demo"
    /\ pc[s] = "predict"
    /\ loop' = [loop EXCEPT ![s].pred = EnsemblePredict(loop[s].state, loop[s].action)]
    /\ ops' = [ops EXCEPT ![s] = Append(@, "predict")]
    /\ pc' = [pc EXCEPT ![s] = "calibrate"]
    /\ UNCHANGED <<prog, filterVars, viz, cached, models, ref, lambda_tight, n_steps, t, env, saocpVars, dashVars, chartVars, panelVars>>

\* sigma_cal = saocp.calibrate(pred_std[0])
Calibrate(s) ==
    /\ prog = "demo"
    /\ pc[s] = "calibrate"
    /\ loop' = [loop EXCEPT ![s].sigma_cal =
                   SAOCPCalibrate(models[ref[s]].eta, loop[s].pred.raw_std)]
    /\ ops' = [ops EXCEPT ![s] = Append(@, "calibrate")]
    /\ pc' = [pc EXCEPT ![s] = "set_lambda"]
    /\ UNCHANGED <<prog, filterVars, viz, cached, models, ref, lambda_tight, n_steps, t, env, saocpVars, dashVars, chartVars, panelVars>>

\* cbf.lambda_tight = lambda_tight
SetLambda(s) ==
    /\ prog = "demo"
    /\ pc[s] = "set_lambda"
    /\ models' = [models EXCEPT ![ref[s]].lambda_tight = lambda_tight[s]]
    /\ pc' = [pc EXCEPT ![s] = "filter_action"]
    /\ UNCHANGED <<prog, filterVars, viz, cached, ref, lambda_tight, n_steps, t, loop, env, ops, saocpVars, dashVars, chartVars, panelVars>>

\* action_safe, _ = cbf.filter_action(state, action, pred_mean[0], sigma_cal)
DemoFilter(s) ==
    /\ prog = "demo"
    /\ pc[s] = "filter_action"
    /\ LET cbf == models[ref[s]]
           d == FilterAction(cbf.lambda_tight, loop[s].state, loop[s].action,
                             loop[s].pred.mean, loop[s].sigma_cal, DemoGrad, cbf.prev)
       IN  /\ loop' = [loop EXCEPT ![s].action_safe = d.safe_action,
                                   ![s].lambda_read = cbf.lambda_tight]
           /\ models' = [models EXCEPT ![ref[s]].prev = d.safe_action]
    /\ ops' = [ops EXCEPT ![s] = Append(@, "filter_action")]
    /\ pc' = [pc EXCEPT ![s] = "env_step"]
    /\ UNCHANGED <<prog, filterVars, viz, cached, ref, lambda_tight, n_steps, t, env, saocpVars, dashVars, chartVars, panelVars>>

\* next_state, reward, terminated, truncated, _ = env.step(action_safe)
EnvStepWith(s, a) ==
    /\ prog = "demo"
    /\ pc[s] = "env_step"
    /\ \E nxt \in EnvStates, term \in BOOLEAN :
         /\ env' = [env EXCEPT ![s] = [state |-> nxt, action |-> a, steps |-> @.steps + 1]]
         /\ loop' = [loop EXCEPT ![s].next_state = nxt, ![s].terminated = term]
    /\ ops' = [ops EXCEPT ![s] = Append(@, "env.step")]
    /\ pc' = [pc EXCEPT ![s] = "store"]
    /\ UNCHANGED <<prog, filterVars, viz, cached, models, ref, lambda_tight, n_steps, t, saocpVars, dashVars, chartVars, panelVars>>
EnvStepNominal(s) == EnvStepWith(s, loop[s].action)
EnvStep(s) == EnvStepWith(s, loop[s].action_safe)

\* the lists are appended to; break if terminated or truncated, else
\* state = next_state and the next iteration
StoreAndAdvance(s) ==
    /\ prog = "demo"
    /\ pc[s] = "store"
    /\ IF loop[s].terminated
       THEN /\ pc' = [pc EXCEPT ![s] = "done"]
            /\ UNCHANGED <<t, loop>>
       ELSE /\ pc' = [pc EXCEPT ![s] = "for"]
            /\ t' = [t EXCEPT ![s] = @ + 1]
            /\ loop' = [loop EXCEPT ![s] = [NoLocals EXCEPT !.state = loop[s].next_state]]
    /\ UNCHANGED <<prog, filterVars, viz, cached, models, ref, lambda_tight, n_steps, env, ops, saocpVars, dashVars, chartVars, panelVars>>

\* one iteration of `for i, cov in enumerate(raw_coverage)`
SimStep ==
    /\ prog = "saocp"
    /\ sim.i < NPoints
    /\ \E cov \in (IF sim.i < ShiftAt THEN CovBefore ELSE CovAfter) :
         LET eta == IF sim.i > UpdateAfter THEN EtaStep(sim.eta, cov) ELSE sim.eta
         IN  sim' = [i |-> sim.i + 1,
                     eta |-> eta,
                     eta_before |-> sim.eta,
                     cov |-> cov,
                     corrected |-> IF sim.i > UpdateAfter THEN Corrected(cov, eta)
                                   ELSE cov * CovScale]
    /\ UNCHANGED <<prog, filterVars, viz, demoVars, cal, dashVars, chartVars, panelVars>>

\* saocp.update on an observed coverage
CalibUpdate ==
    /\ prog = "calib"
    /\ \E cov \in CovObs :
         cal' = [eta |-> SAOCPUpdate(cal.eta, cov),
                 eta_before |-> cal.eta,
                 cov |-> cov,
                 updates |-> Min(cal.updates + 1, 1)]
    /\ UNCHANGED <<prog, filterVars, viz, demoVars, sim, dashVars, chartVars, panelVars>>

\* generator.set_scenario(selected_scenario)
SetScenario ==
    /\ prog = "dashboard"
    /\ \E sc \in Scenarios : gen' = GenSetScenario(gen, sc)
    /\ UNCHANGED <<prog, filterVars, viz, demoVars, saocpVars, rec, ind, pgen, prec, chartVars, panelVars>>

\* generator.get_state()
GetState ==
    /\ prog = "dashboard"
    /\ \E g \in GetStateResults(gen) :
         /\ gen' = g
         /\ rec' = StateDict(g)
    /\ UNCHANGED <<prog, filterVars, viz, demoVars, saocpVars, ind, pgen, prec, chartVars, panelVars>>

\* generator.reset()
GenReset ==
    /\ prog = "dashboard"
    /\ gen' = NewGenerator
    /\ UNCHANGED <<prog, filterVars, viz, demoVars, saocpVars, rec, ind, pgen, prec, chartVars, panelVars>>

\* generator.set_scenario(selected_scenario)
SetScenarioPower ==
    /\ prog = "power"
    /\ \E sc \in Scenarios : pgen' = [pgen EXCEPT !.scenario = sc]
    /\ UNCHANGED <<prog, filterVars, viz, demoVars, saocpVars, gen, rec, ind, prec,
                   chartVars, panelVars>>

\* generator.get_state()
GetStatePower ==
    /\ prog = "power"
    /\ \E g \in GetPowerResults(pgen) :
         /\ pgen' = g
         /\ prec' = PowerDict(g)
    /\ UNCHANGED <<prog, filterVars, viz, demoVars, saocpVars, gen, rec, ind,
                   chartVars, panelVars>>

\* generator.reset()
GenResetPower ==
    /\ prog = "power"
    /\ pgen' = NewPowerGenerator
    /\ UNCHANGED <<prog, filterVars, viz, demoVars, saocpVars, gen, rec, ind, prec,
                   chartVars, panelVars>>

\* create_cbf_status_indicator on some barrier value
StatusIndicator ==
    /\ prog = "indicator"
    /\ \E active \in BOOLEAN, b \in IndicatorBarriers :
         ind' = CbfStatusIndicator(active, b)
    /\ UNCHANGED <<prog, filterVars, viz, demoVars, saocpVars, gen, rec, pgen, prec, chartVars, panelVars>>

\* chart_manager.update(state)
ChartUpdate ==
    /\ prog = "charts"
    /\ clock < MaxUpdates
    /\ \E state \in Samples :
         /\ mgr' = ManagerUpdate(mgr, state, clock)
         /\ fed' = Append(fed, [state |-> state, time |-> clock])
    /\ clock' = clock + 1
    /\ UNCHANGED <<prog, filterVars, viz, demoVars, saocpVars, dashVars, built, resets, panelVars>>

\* chart_manager.reset()
ChartReset ==
    /\ prog = "charts"
    /\ resets < MaxResets
    /\ mgr' = ManagerReset(mgr)
    /\ fed' = <<>>
    /\ resets' = resets + 1
    /\ UNCHANGED <<prog, filterVars, viz, demoVars, saocpVars, dashVars, built, clock, panelVars>>

ChartsStep == ChartUpdate \/ ChartReset

\* a call of generator.get_state() by the script
PanelGetState ==
    /\ \E g \in GetStateResults(gen) :
         /\ gen' = g
         /\ rec' = StateDict(g)
    /\ keys' = DictKeys(prog)
    /\ sel_at_call' = selected

\* init_session_state: current_state = generator.get_state()
InitSessionState ==
    /\ prog \in PanelPrograms
    /\ ppc = "init"
    /\ PanelGetState
    /\ ppc' = "prefill"
    /\ UNCHANGED <<prog, filterVars, viz, demoVars, saocpVars, ind, pgen, prec, chartVars,
                   selected, running, filled>>

\* one iteration of the pre-population loop of init_session_state and of the
\* Reset button: chart_manager.update(generator.get_state())
Prefill ==
    /\ prog \in PanelPrograms
    /\ ppc = "prefill"
    /\ filled < MaxPrefill
    /\ PanelGetState
    /\ filled' = filled + 1
    /\ UNCHANGED <<prog, filterVars, viz, demoVars, saocpVars, ind, pgen, prec, chartVars,
                   selected, running, ppc>>

\* the rest of the script run after the loop: the select box is read and
\* generator.set_scenario(selected_scenario) is called
RenderScenario ==
    /\ prog \in PanelPrograms
    /\ ppc = "prefill"
    /\ filled = MaxPrefill
    /\ gen' = GenSetScenario(gen, selected)
    /\ ppc' = "idle"
    /\ UNCHANGED <<prog, filterVars, viz, demoVars, saocpVars, rec, ind, pgen, prec, chartVars,
                   selected, running, filled, sel_at_call, keys>>

\* the Start button, then the rest of the script run
ClickStart ==
    /\ prog \in PanelPrograms
    /\ ppc = "idle"
    /\ running' = TRUE
    /\ gen' = GenSetScenario(gen, selected)
    /\ UNCHANGED <<prog, filterVars, viz, demoVars, saocpVars, rec, ind, pgen, prec, chartVars,
                   selected, ppc, filled, sel_at_call, keys>>

\* the Stop button, then the rest of the script run
ClickStop ==
    /\ prog \in PanelPrograms
    /\ ppc = "idle"
    /\ running' = FALSE
    /\ gen' = GenSetScenario(gen, selected)
    /\ UNCHANGED <<prog, filterVars, viz, demoVars, saocpVars, rec, ind, pgen, prec, chartVars,
                   selected, ppc, filled, sel_at_call, keys>>

\* the Step button: one get_state, then the rest of the script run
ClickStep ==
    /\ prog \in PanelPrograms
    /\ ppc = "idle"
    /\ \E g \in GetStateResults(gen) :
         /\ gen' = GenSetScenario(g, selected)
         /\ rec' = StateDict(g)
    /\ keys' = DictKeys(prog)
    /\ sel_at_call' = selected
    /\ UNCHANGED <<prog, filterVars, viz, demoVars, saocpVars, ind, pgen, prec, chartVars,
                   selected, running, ppc, filled>>

\* the Reset button: generator.reset(), chart_manager.reset(), then the
\* pre-population loop
ClickReset ==
    /\ prog \in PanelPrograms
    /\ ppc = "idle"
    /\ gen' = NewGenerator
    /\ ppc' = "prefill"
    /\ filled' = 0
    /\ UNCHANGED <<prog, filterVars, viz, demoVars, saocpVars, rec, ind, pgen, prec, chartVars,
                   selected, running, sel_at_call, keys>>

\* the user picks another scenario in the select box; the script run reads
\* it and calls generator.set_scenario
SelectScenario ==
    /\ prog \in PanelPrograms
    /\ ppc = "idle"
    /\ \E sc \in Scenarios \ {selected} :
         /\ selected' = sc
         /\ gen' = GenSetScenario(gen, sc)
    /\ UNCHANGED <<prog, filterVars, viz, demoVars, saocpVars, rec, ind, pgen, prec, chartVars,
                   running, ppc, filled, sel_at_call, keys>>

\* realtime_data_fragment while the simulation runs: one iteration of its
\* loop, current_state = generator.get_state()
DataFragment ==
    /\ prog \in PanelPrograms
    /\ ppc = "idle"
    /\ running
    /\ PanelGetState
    /\ UNCHANGED <<prog, filterVars, viz, demoVars, saocpVars, ind, pgen, prec, chartVars,
                   selected, running, ppc, filled>>

PanelStep ==
    \/ InitSessionState
    \/ Prefill
    \/ RenderScenario
    \/ ClickStart
    \/ ClickStop
    \/ ClickStep
    \/ ClickReset
    \/ SelectScenario
    \/ DataFragment

DashboardStep == SetScenario \/ GetState \/ GenReset
PowerStep == SetScenarioPower \/ GetStatePower \/ GenResetPower

DemoStep(s) ==
    \/ LoadModels(s)
    \/ RunSimulation(s)
    \/ SampleAction(s)
    \/ LoopEnd(s)
    \/ Predict(s)
    \/ Calibrate(s)
    \/ SetLambda(s)
    \/ DemoFilter(s)
    \/ EnvStep(s)
    \/ StoreAndAdvance(s)

Next ==
    \/ FilterCall
    \/ QPVizPoint
    \/ \E s \in Sessions : DemoStep(s)
    \/ SimStep
    \/ CalibUpdate
    \/ DashboardStep
    \/ PowerStep
    \/ StatusIndicator
    \/ ChartsStep
    \/ PanelStep

Spec == Init /\ [][Next]_vars

\* the filter and its stand-in
SpecFilter == (InitFilter \/ InitQPViz) /\ [][FilterCall \/ QPVizPoint]_vars
\* the per-step records: the filter's decision, the generator's dicts
SpecRecords ==
    /\ InitFilter \/ InitDashboard \/ InitIndicator
    /\ [][FilterCall \/ DashboardStep \/ StatusIndicator]_vars
\* the data generator
SpecGenerator ==
    /\ InitDashboard \/ InitPower
    /\ [][DashboardStep \/ PowerStep]_vars
\* the data generator when get_state keeps being called
SpecGeneratorLive ==
    /\ InitDashboard
    /\ [][DashboardStep]_vars
    /\ WF_vars(GetState)
\* the Live Simulation
SpecDemo == InitDemo /\ [][\E s \in Sessions : DemoStep(s)]_vars
\* the control panels
SpecPanel == InitPanel /\ [][PanelStep]_vars
\* the chart manager
SpecCharts == InitCharts /\ [][ChartsStep]_vars
\* the calibration
SpecSaocp == (InitSaocpSim \/ InitCalib) /\ [][SimStep \/ CalibUpdate]_vars

(***************************************************************************)
(* Claims                                                                  *)
(***************************************************************************)
InBox(a) == a \in Actions
\* an update has just been applied: by the simulation, or by the calibrator
SimUpdated == sim.i > UpdateAfter + 1
CalUpdated == cal.updates > 0

\* C1: after every call of the safety filter, and of its stand-in (the
\* clipping of the RL action to the safe region), every component of the
\* returned safe_action lies within the actuator bounds, whichever level
\* produced it.
C1_Boundedness ==
    /\ decision # NoDecision => InBox(decision.safe_action)
    /\ viz.k > 0 => (viz.a_safe >= SafeLo /\ viz.a_safe <= SafeHi)
\* a nominal action outside the bounds has been filtered at each level, and
\* an RL action above the safe region has been clipped
C1_Witness == viz.k > 0 /\ viz.a_rl > SafeHi /\ viz.a_safe = SafeHi

NominalInfeasible ==
    fin.nom \notin Level1Set(fin.lam, fin.h, fin.hp, fin.g, fin.nom, fin.sigma)
Level1Infeasible == Level1Set(fin.lam, fin.h, fin.hp, fin.g, fin.nom, fin.sigma) = {}
Level2Infeasible == Level2Set(fin.lam, fin.h, fin.hp, fin.g, fin.nom, fin.sigma) = {}
\* the cascade: Level 1 if feasible, else Level 2 if feasible, else Level 3,
\* and an action of the actuator box is returned at each level
C2_Cascade ==
    /\ decision.level \in 1..3
    /\ InBox(decision.safe_action)
    /\ decision.level = 1 <=> ~Level1Infeasible
    /\ decision.level = 2 <=> (Level1Infeasible /\ ~Level2Infeasible)
    /\ decision.level = 3 <=> (Level1Infeasible /\ Level2Infeasible)
    /\ decision.level = 1 =>
         SatisfiesBarrier(fin.lam, fin.h, fin.hp, fin.g, fin.nom, fin.sigma, decision.safe_action)

IterationOver(s) ==
    \/ pc[s] = "for" /\ t[s] > 0
    \/ pc[s] = "done" /\ env[s].steps > 0
FullStepOrder ==
    <<"predict", "calibrate", "filter_action", "env.step", "update", "check">>

\* C4 (as claimed): in every per-step record cbf_active is true exactly
\* when the filter changed the action, and false whenever the nominal
\* action passed through unchanged.  get_state applies no filter and
\* changes no action, so cbf_active would be false in each of its dicts.
C4_Original ==
    /\ decision # NoDecision =>
          (decision.cbf_active <=> decision.safe_action # decision.nominal_action)
    /\ rec # NoRecord => ~rec.cbf_active

\* C4 (amended): in the filter's decision cbf_active is true exactly when
\* safe_action differs from nominal_action; in the dicts of get_state,
\* which carry no action, cbf_active is true exactly when barrier_value is
\* below the activation threshold 2.0.
C4_CbfActive ==
    /\ decision # NoDecision =>
          (decision.cbf_active <=> decision.safe_action # decision.nominal_action)
    /\ rec # NoRecord => (rec.cbf_active <=> rec.barrier_value < CbfThreshold)
\* get_state has returned a safe state in which the CBF is active
C4_Witness == rec # NoRecord /\ rec.cbf_active /\ rec.is_safe

\* the actions that minimise the objective of the level that resolved the
\* last call
MinimisersOfLevel ==
    CASE decision.level = 1 ->
           {a \in Level1Set(fin.lam, fin.h, fin.hp, fin.g, fin.nom, fin.sigma) :
              \A b \in Level1Set(fin.lam, fin.h, fin.hp, fin.g, fin.nom, fin.sigma) :
                 Dist2(a, fin.nom) <= Dist2(b, fin.nom)}
      [] decision.level = 2 ->
           {a \in Level2Set(fin.lam, fin.h, fin.hp, fin.g, fin.nom, fin.sigma) :
              \A b \in Level2Set(fin.lam, fin.h, fin.hp, fin.g, fin.nom, fin.sigma) :
                 Level2Cost(fin.lam, fin.h, fin.hp, fin.g, fin.nom, fin.sigma, a)
                   <= Level2Cost(fin.lam, fin.h, fin.hp, fin.g, fin.nom, fin.sigma, b)}
      [] OTHER ->
           {a \in Actions : \A b \in Actions :
              CbfLhs(fin.lam, fin.h, fin.hp, fin.g, fin.nom, a)
                >= CbfLhs(fin.lam, fin.h, fin.hp, fin.g, fin.nom, b)}

\* C11: when the Level-1 QP is feasible, the returned safe_action satisfies
\* the barrier constraint within the actuator bounds and no action of the
\* bounded grid that satisfies the constraint is strictly closer to
\* nominal_action; the stand-in a_safe = clip(a_rl) is the point of the safe
\* region nearest to a_rl.
C11_Nearness ==
    /\ (decision # NoDecision /\ decision.level = 1) =>
          /\ InBox(decision.safe_action)
          /\ CbfLhs(fin.lam, fin.h, fin.hp, fin.g, fin.nom, decision.safe_action)
                >= CbfRhs(fin.sigma)
          /\ \A a \in Actions :
                CbfLhs(fin.lam, fin.h, fin.hp, fin.g, fin.nom, a) >= CbfRhs(fin.sigma)
                  => Dist2(decision.safe_action, fin.nom) <= Dist2(a, fin.nom)
    /\ viz.k > 0 =>
          /\ viz.a_safe \in SafeLo..SafeHi
          /\ \A x \in SafeLo..SafeHi : Abs(viz.a_safe - viz.a_rl) <= Abs(x - viz.a_rl)
\* Level 1 has moved an infeasible nominal action to a feasible action that
\* is not the only feasible one
C11_Witness ==
    /\ decision # NoDecision
    /\ decision.level = 1
    /\ decision.safe_action # fin.nom
    /\ Cardinality(Level1Set(fin.lam, fin.h, fin.hp, fin.g, fin.nom, fin.sigma)) > 2

\* C12: if nominal_action lies within the actuator bounds and satisfies the
\* barrier constraint, filter_action returns it unchanged at Level 1 with
\* cbf_active false; the stand-in leaves an RL action of the safe region
\* unchanged.
C12_NoOpWhenSafe ==
    /\ (/\ decision # NoDecision
        /\ InBox(fin.nom)
        /\ CbfLhs(fin.lam, fin.h, fin.hp, fin.g, fin.nom, fin.nom) >= CbfRhs(fin.sigma)) =>
          /\ decision.safe_action = fin.nom
          /\ decision.level = 1
          /\ ~decision.cbf_active
    /\ (viz.k > 0 /\ viz.a_rl \in SafeLo..SafeHi) => viz.a_safe = viz.a_rl
\* a bounded nominal action that meets the constraint with no margin has
\* been returned unchanged although other actions are feasible too
C12_Witness ==
    /\ decision # NoDecision
    /\ InBox(fin.nom)
    /\ CbfLhs(fin.lam, fin.h, fin.hp, fin.g, fin.nom, fin.nom) = CbfRhs(fin.sigma)
    /\ decision.safe_action = fin.nom
    /\ fin.prev # fin.nom
    /\ Cardinality(Level1Set(fin.lam, fin.h, fin.hp, fin.g, fin.nom, fin.sigma)) > 1

\* C13: a second call of filter_action on the same state, nominal_action,
\* predicted_mean and sigma_calibrated returns the safe_action of the first
\* call, also when the QP has several minimisers and the tie-break of the
\* second call refers to the safe_action the first call returned.
C13_Idempotence ==
    earlier # NoDecision =>
        /\ decision.safe_action = earlier.safe_action
        /\ decision.level = earlier.level
\* the second call has been made on a degenerate QP, and the first call's
\* tie-break chose an action other than the previous safe_action
C13_Witness ==
    /\ earlier # NoDecision
    /\ Cardinality(MinimisersOfLevel) > 1
    /\ earlier.safe_action # fin.prev

\* the qualitative state of a sample: violation if not is_safe, else
\* intervening if cbf_active, else monitoring
QualitativeState(state) ==
    IF ~Get(ExtractValues(state), "is_safe", TRUE) THEN "violation"
    ELSE IF Get(ExtractValues(state), "cbf_active", FALSE) THEN "intervening"
    ELSE "monitoring"
\* a sequence without its consecutive repetitions
RECURSIVE Compress(_)
Compress(seq) ==
    IF Len(seq) <= 1 THEN seq
    ELSE IF seq[1] = seq[2] THEN Compress(Tail(seq))
    ELSE <<seq[1]>> \o Compress(Tail(seq))
\* the manager after the updates of a sequence of fed states
RECURSIVE Replay(_, _)
Replay(m, seq) ==
    IF seq = <<>> THEN m
    ELSE Replay(ManagerUpdate(m, Head(seq).state, Head(seq).time), Tail(seq))

\* C14: update appends an event exactly when the qualitative state of the
\* new sample differs from the type of the last recorded event or the log is
\* empty: the types of the log are the qualitative states of the samples fed
\* since construction or the last reset without their consecutive
\* repetitions, and no two consecutive events have the same type.
C14_EventLog ==
    /\ Len(mgr.cbf_events) = Len(Compress([i \in 1..Len(fed) |-> QualitativeState(fed[i].state)]))
    /\ \A i \in 1..Len(mgr.cbf_events) :
         mgr.cbf_events[i].event_type =
           Compress([j \in 1..Len(fed) |-> QualitativeState(fed[j].state)])[i]
    /\ \A i \in 1..(Len(mgr.cbf_events) - 1) :
         mgr.cbf_events[i].event_type # mgr.cbf_events[i + 1].event_type
\* the log holds a change of state, and an update of unchanged state has
\* appended nothing
C14_Witness ==
    /\ Len(mgr.cbf_events) >= 2
    /\ Len(mgr.cbf_events) < Len(fed)

\* C15: after n updates since construction or the last reset every buffer
\* holds min(n, window_size) entries, and the entries are those of the most
\* recent updates in arrival order.
C15_RollingWindow ==
    LET n == Len(fed)
        m == Min(n, built.window_size)
    IN  /\ \A k \in BufferKeys : Len(mgr.data_buffer[k]) = m
        /\ \A j \in 1..m :
             /\ mgr.data_buffer["voltage"][j] =
                  Get(ExtractValues(fed[n - m + j].state), "voltage", DefaultVoltage)
             /\ mgr.data_buffer["barrier_value"][j] =
                  Get(ExtractValues(fed[n - m + j].state), "barrier_value", 0)
             /\ mgr.data_buffer["p_grid"][j] =
                  Get(ExtractValues(fed[n - m + j].state), "p_grid", 0)
             /\ mgr.data_buffer["timestamp"][j] = fed[n - m + j].time - fed[1].time
\* more updates than the window holds: the oldest entry has been evicted
C15_Witness ==
    /\ Len(fed) > built.window_size
    /\ Len(mgr.data_buffer["timestamp"]) = built.window_size
    /\ mgr.data_buffer["timestamp"][1] > 0

\* C16: after a reset the manager is in the state of a manager newly
\* constructed with the same window_size and config, and the updates made
\* since the reset leave it in the state they leave a new manager in
\* (buffers, events, costs and start time).
C16_ResetFresh ==
    resets > 0 => mgr = Replay(NewManager(built.window_size, built.config), fed)
\* a manager that had been updated and had accumulated costs and events was
\* reset and updated again
C16_Witness ==
    /\ resets > 0
    /\ clock > Len(fed) + 1
    /\ Len(fed) > 0
    /\ mgr.total_cost > 0

\* C17: every state get_state returns while the scenario selected in the
\* control panel is CYBER_ATTACK is a safety violation: is_safe is false
\* and barrier_value is not positive.
C17_AttackUnsafe ==
    sel_at_call = "CYBER_ATTACK" => (~rec.is_safe /\ rec.barrier_value <= 0)

\* the fields of the output state the dashboard consumes
ContractFields ==
    {"voltage", "frequency", "soc", "p_pv", "p_load", "p_battery", "p_grid",
     "barrier_value", "cbf_active", "is_safe", "safety_margin",
     "sigma_calibrated", "prediction_mean", "prediction_std"}
\* C18: every dict returned by get_state, in app.py and in
\* digital_twin_dashboard.py, has all fourteen fields of the output state.
C18_ContractFields == keys # {} => ContractFields \subseteq keys

\* C19: the update the simulation of the page performs at a step is the rule
\* the page displays: for every coverage value the new eta is
\* eta + alpha * (coverage - target), alpha = 0.01, target = 0.90.
C19_DisplayedRule ==
    SimUpdated => sim.eta = DisplayedRule(sim.eta_before, sim.cov)

\* C20: eta is 1.0 before the first update and is updated by the rule once
\* at every step, from the first step on; it is never set back otherwise.
C20_EveryStep ==
    /\ sim.i = 0 => sim.eta = EtaOne
    /\ sim.i > 0 => sim.eta = EtaStep(sim.eta_before, sim.cov)
    /\ cal.updates = 0 => cal.eta = EtaOne
    /\ CalUpdated => cal.eta = SAOCPUpdate(cal.eta_before, cal.cov)

C22_CalmStaysSafe ==
    [][(GetState /\ ~gen'.attacked) =>
         /\ rec'.barrier_value > 0
         /\ rec'.is_safe
         /\ TargetBarrier(gen'.voltage, gen'.soc) >= 0
         /\ Abs(5 * (gen'.barrier - gen.barrier)
                 - (TargetBarrier(gen'.voltage, gen'.soc) - gen.barrier)) <= 2]_vars
C22_Witness ==
    /\ prog = "dashboard"
    /\ ~gen.attacked
    /\ rec # NoRecord
    /\ rec.barrier_value = gen.barrier
    /\ TargetBarrier(gen.voltage, gen.soc) = 0
    /\ rec.barrier_value > 0
    /\ rec.barrier_value < BarrierUnit
    /\ rec.is_safe

\* the last dict get_state returned is safe
RecSafe == rec # NoRecord /\ rec.is_safe
\* the last dict get_state returned is unsafe and the scenario is no longer
\* CYBER_ATTACK
LeftAttackUnsafe ==
    /\ rec # NoRecord
    /\ ~rec.is_safe
    /\ gen.scenario # "CYBER_ATTACK"
\* voltage is strictly inside its limits and soc above its minimum
InsideLimits ==
    /\ gen.voltage > VoltageMin
    /\ gen.voltage < VoltageMax
    /\ gen.soc > SocMin

\* C23 (as claimed): once the scenario has left CYBER_ATTACK and get_state
\* keeps being called, a dict with is_safe = True is eventually returned
\* (unless the scenario is set to CYBER_ATTACK again), whatever the noise.
C23_Original ==
    LeftAttackUnsafe ~> (RecSafe \/ gen.scenario = "CYBER_ATTACK")

\* C23 (amended): the same, provided the noise brings voltage strictly inside
\* (218, 242) and soc above 0.15 again and again.
C23_Recovery ==
    []<>InsideLimits => (LeftAttackUnsafe ~> (RecSafe \/ gen.scenario = "CYBER_ATTACK"))
C23_Witness ==
    /\ prog = "dashboard"
    /\ gen.attacked
    /\ gen.scenario # "CYBER_ATTACK"
    /\ RecSafe
    /\ rec.scenario # "CYBER_ATTACK"
    /\ rec.barrier_value = gen.barrier

\* C24: no event of cbf_events has type RECOVERED: every event is MONITORING,
\* INTERVENING or VIOLATION, and the event that follows a VIOLATION, the
\* return to a safe state, is MONITORING or INTERVENING.
C24_NoRecovered ==
    /\ \A i \in 1..Len(mgr.cbf_events) :
         /\ mgr.cbf_events[i].event_type \in CBFEventTypes
         /\ mgr.cbf_events[i].event_type # "recovered"
    /\ \A i \in 1..(Len(mgr.cbf_events) - 1) :
         mgr.cbf_events[i].event_type = "violation" =>
           mgr.cbf_events[i + 1].event_type \in {"monitoring", "intervening"}
C24_Witness ==
    \E i \in 1..(Len(mgr.cbf_events) - 1) :
       /\ mgr.cbf_events[i].event_type = "violation"
       /\ mgr.cbf_events[i + 1].event_type = "monitoring"
       /\ QualitativeState(fed[Len(fed)].state) = "monitoring"

\* C25: in every dict get_state returns, in every scenario, not is_safe
\* implies cbf_active.
C25_UnsafeImpliesActive ==
    rec # NoRecord => (~rec.is_safe => rec.cbf_active)
C25_Witness ==
    /\ rec # NoRecord
    /\ ~rec.is_safe
    /\ rec.cbf_active
    /\ rec.scenario # "CYBER_ATTACK"

\* C26: every dict get_state returns while the scenario is not CYBER_ATTACK,
\* the first one after CYBER_ATTACK included, has voltage in [218, 242],
\* frequency in [49.2, 50.8], soc in [0.15, 0.95], p_pv in [0, 50] and
\* p_load in [20, 50].
C26_Ranges ==
    /\ (rec # NoRecord /\ rec.scenario # "CYBER_ATTACK") =>
          /\ rec.voltage \in VoltageMin..VoltageMax
          /\ rec.soc \in SocMin..SocMax
    /\ (prec # NoRecord /\ prec.scenario # "CYBER_ATTACK") =>
          /\ prec.frequency \in FrequencyMin..FrequencyMax
          /\ prec.p_pv \in PvMin..PvMax
          /\ prec.p_load \in LoadMin..LoadMax
C26_Witness ==
    /\ prec # NoRecord
    /\ prec.scenario = "HEATWAVE"
    /\ pgen.after_attack
    /\ prec = PowerDict(pgen)
    /\ prec.frequency = FrequencyMax
    /\ prec.p_load = LoadMax

\* C5: every control step of the loop calls EnsembleDynamics.predict,
\* SAOCPCalibrator.calibrate, CBFSafetyFilter.filter_action,
\* environment.step, SAOCPCalibrator.update and Watchdog.check, in this
\* order, the last two once per step after environment.step.
C5_StepOrder ==
    \A s \in Sessions : IterationOver(s) => ops[s] = FullStepOrder

\* C6: the state passed to predict and filter_action is the state the
\* environment returned last (no step begins before the previous one has
\* been applied), and the action given to environment.step is the
\* safe_action of this step's filter_action, never the nominal action.
C6_ClosedLoop ==
    \A s \in Sessions :
        /\ pc[s] \in {"predict", "calibrate", "set_lambda", "filter_action", "env_step"} =>
              /\ loop[s].state = env[s].state
              /\ env[s].steps = t[s]
        /\ pc[s] = "store" =>
              /\ env[s].action = loop[s].action_safe
              /\ env[s].steps = t[s] + 1
              /\ loop[s].next_state = env[s].state
\* in its second step a session has applied a safe action that differs
\* from the nominal one, in a state that env.step returned
C6_Witness ==
    \E s \in Sessions :
        /\ pc[s] = "store"
        /\ t[s] = 1
        /\ loop[s].state # EnvInitial
        /\ loop[s].action_safe # loop[s].action

\* C7: two control loops of one process never share mutable calibrator or
\* filter state: the lambda_tight that a loop's filter_action call reads is
\* the one this loop has set, never the write of the other loop.
C7_NoSharing ==
    \A s \in Sessions : pc[s] = "env_step" => loop[s].lambda_read = lambda_tight[s]

CovTol == 30000
C10_Recovery ==
    /\ (SimUpdated /\ sim.cov < Target) => sim.eta > sim.eta_before
    /\ sim.i = NPoints => sim.corrected >= Target * CovScale - CovTol

\* C3: in every per-step record (the filter's decision, the dicts of
\* get_state, the status indicator) is_safe is true exactly when the
\* barrier value is strictly positive; it is false at barrier value 0.
C3_IsSafe ==
    /\ decision # NoDecision => (decision.is_safe <=> decision.barrier_value > 0)
    /\ rec # NoRecord => (rec.is_safe <=> rec.barrier_value > 0)
    /\ ind # NoIndicator =>
          /\ ind.is_safe <=> ind.barrier_value > 0
          /\ ind.status_text = "VIOLATION" <=> ind.barrier_value <= 0
\* get_state has returned a dict with barrier value 0, which is not safe
C3_Witness == rec # NoRecord /\ rec.barrier_value = 0 /\ ~rec.is_safe

====
